---- MODULE Spec2Model ----
(***************************************************************************)
(* Model of the chunked RAG extraction pipeline                            *)
(* (src/data_processor.py), of the similarity index builder                *)
(* (src/vectordb_setup.py) and of the run control of the application       *)
(* window (src/pharm_app.py, src/ui_components.py).                        *)
(*                                                                         *)
(* Text is modelled as a sequence of one-character strings, so that the    *)
(* str.strip / str.split calls of the code are computed, not assumed.      *)
(***************************************************************************)
EXTENDS Integers, Sequences, FiniteSets, TLC

VARIABLES
    pc,             \* position of process_data (data_processor.py:59-98)
    error,          \* the exception that left process_data, "none" if none
    chunk_size,     \* ProcessingConfig.chunk_size
    has_callback,   \* TRUE iff a progress_callback was supplied
    index,          \* content of the persisted similarity index the run opens
    initialized,    \* TRUE once initialize_rag_system has returned
    raw_data_df,    \* rows of the loaded input dataset (row numbers), <<>> before load
    chunks,         \* the batches returned by split_data_into_chunks
    i,              \* index of the for loop over chunks (0-based, as in the code)
    reference,      \* reference_examples of the batch in progress
    results,        \* the list `results` of process_data / argument of _parse_results
    failed,         \* indices of the batches whose processing raised
    calls,          \* log of retrievals and model invocations
    callbacks,      \* log of progress_callback invocations
    table,          \* rows of the returned DataFrame
    table_columns,  \* columns of the returned DataFrame, <<>> before it exists
    bpc,            \* position of build_vector_db (vectordb_setup.py:13-108)
    ref_rows,       \* len(ref_df): number of rows of the reference dataset
    idx,            \* index of the row iterrows yields next (0-based)
    row,            \* the row iterrows yielded last
    documents,      \* the list `documents` of build_vector_db
    valid_rows,     \* the counter valid_rows
    skipped,        \* row ids whose record construction raised
    disk,           \* the persisted index at persist_directory
    build_error,    \* the exception that left build_vector_db, "none" if none
    removed,        \* TRUE once the rmtree of an existing persist_directory has run
    processing,     \* PharmApp.processing (pharm_app.py:22)
    process_btn,    \* state of ProcessingControls.process_btn: "normal" or "disabled"
    threads,        \* position of every worker thread start_processing has started
    after_queue,    \* callbacks scheduled with root.after(0, ...) and not yet run
    dialog,         \* the message box shown last, "none" if none
    ended           \* the processing_complete / processing_error handlers that have run

pipeVars == <<pc, error, chunk_size, has_callback, index, initialized, raw_data_df,
              chunks, i, reference, results, failed, calls, callbacks, table,
              table_columns>>
buildVars == <<bpc, ref_rows, idx, row, documents, valid_rows, skipped, disk, build_error,
               removed>>
guiVars == <<processing, process_btn, threads, after_queue, dialog, ended>>
vars == <<pipeVars, buildVars, guiVars>>

----------------------------------------------------------------------------
(* Bounds *)

MaxRows == 3            \* largest input dataset (rows)
MaxChunk == 3           \* largest configured chunk_size
MaxResponses == 2       \* responses handed to _parse_results in SpecParse
MaxTotalLen == 6        \* total characters of those responses
MaxRefRows == 2         \* largest reference dataset (rows)
MaxSplitRows == 25      \* largest dataset handed to split_data_into_chunks in SpecSplit
MaxSplitChunk == 10     \* largest chunk_size in SpecSplit

----------------------------------------------------------------------------
(* Text primitives: Python's str.strip, str.split and str.join *)

NL == "\n"
Comma == ","
Whitespace == {" ", NL, "\t", "\r"}
Alphabet == {"1", Comma, " ", NL}

RECURSIVE LStrip(_)
LStrip(s) ==
    IF s = <<>> THEN s
    ELSE IF Head(s) \in Whitespace THEN LStrip(Tail(s)) ELSE s

RECURSIVE RStrip(_)
RStrip(s) ==
    IF s = <<>> THEN s
    ELSE IF s[Len(s)] \in Whitespace THEN RStrip(SubSeq(s, 1, Len(s) - 1)) ELSE s

\* str.strip(): leading and trailing whitespace removed
Strip(s) == RStrip(LStrip(s))

\* str.split(sep): the pieces between the separators, always at least one
RECURSIVE Split(_, _)
Split(s, sep) ==
    IF \A k \in 1..Len(s) : s[k] # sep THEN <<s>>
    ELSE LET k == CHOOSE k \in 1..Len(s) :
                     /\ s[k] = sep
                     /\ \A j \in 1..(k - 1) : s[j] # sep
         IN <<SubSeq(s, 1, k - 1)>> \o Split(SubSeq(s, k + 1, Len(s)), sep)

----------------------------------------------------------------------------
(* DataProcessor._parse_results *)

\* values = [v.strip() for v in line.split(",")]
LineValues(line) ==
    LET parts == Split(line, Comma)
    IN [j \in 1..Len(parts) |-> Strip(parts[j])]

\* a parser that keeps every line, whatever its field count
KeepValuesAny(values) == Len(values) >= 1

\* a parser that keeps every line with at least 3 fields
KeepValuesAtLeast3(values) == Len(values) >= 3

\* if len(values) == 3
KeepValues(values) == Len(values) = 3

\* the inner loop over the lines of one response
RECURSIVE ParseLines(_)
ParseLines(lines) ==
    IF lines = <<>> THEN <<>>
    ELSE LET values == LineValues(Head(lines))
         IN (IF KeepValues(values) THEN <<values>> ELSE <<>>) \o ParseLines(Tail(lines))

\* lines = result.content.strip().split("\n")
ContentLines(content) == Split(Strip(content), NL)

\* the outer loop over the responses; the value is the row list of the DataFrame
RECURSIVE parse_results(_)
parse_results(res) ==
    IF res = <<>> THEN <<>>
    ELSE ParseLines(ContentLines(Head(res).content)) \o parse_results(Tail(res))

\* the columns in another order
ColumnsReordered == <<"Dose", "Daily Frequency", "Duration">>

\* columns=['Daily Frequency', 'Dose', 'Duration']
Columns == <<"Daily Frequency", "Dose", "Duration">>

----------------------------------------------------------------------------
(* DataProcessor.split_data_into_chunks *)

\* math.ceil(n / d) for n >= 0 and d # 0
Ceil(n, d) == IF d > 0 THEN -((-n) \div d) ELSE -(n \div (-d))

\* a splitter that rounds the chunk amount down (len(df) // chunk_size)
chunk_amount_floor(df, size) == Len(df) \div size

\* chunk_amount = math.ceil(len(df) / self.config.chunk_size)
chunk_amount(df, size) == Ceil(Len(df), size)

RECURSIVE CumSum(_, _)
CumSum(sizes, acc) ==
    IF sizes = <<>> THEN <<>>
    ELSE <<acc + Head(sizes)>> \o CumSum(Tail(sizes), acc + Head(sizes))

\* a splitter whose slices start one row early (ary[st - 1:end])
array_split_overlap(ary, Nsections) ==
    LET Neach_section == Len(ary) \div Nsections
        extras == Len(ary) % Nsections
        section_sizes == <<0>> \o [j \in 1..extras |-> Neach_section + 1]
                               \o [j \in 1..(Nsections - extras) |-> Neach_section]
        div_points == CumSum(section_sizes, 0)
    IN [j \in 1..Nsections |->
          SubSeq(ary, IF div_points[j] = 0 THEN 1 ELSE div_points[j], div_points[j + 1])]

\* numpy.array_split(ary, Nsections) for Nsections > 0:
\*   Neach_section, extras = divmod(Ntotal, Nsections)
\*   section_sizes = [0] + extras * [Neach_section + 1]
\*                       + (Nsections - extras) * [Neach_section]
\*   div_points = cumsum(section_sizes); sub-array j is ary[div_points[j]:div_points[j+1]]
array_split(ary, Nsections) ==
    LET Neach_section == Len(ary) \div Nsections
        extras == Len(ary) % Nsections
        section_sizes == <<0>> \o [j \in 1..extras |-> Neach_section + 1]
                               \o [j \in 1..(Nsections - extras) |-> Neach_section]
        div_points == CumSum(section_sizes, 0)
    IN [j \in 1..Nsections |-> SubSeq(ary, div_points[j] + 1, div_points[j + 1])]

\* The outcome of split_data_into_chunks: the exception it raises, or the batches.
\* size = 0 raises ZeroDivisionError in the division; a chunk amount <= 0 makes
\* numpy raise ValueError("number sections must be larger than 0.").
split_data_into_chunks(df, size) ==
    IF size = 0 THEN [raises |-> "ZeroDivisionError", chunks |-> <<>>]
    ELSE IF chunk_amount(df, size) <= 0 THEN [raises |-> "ValueError", chunks |-> <<>>]
    ELSE [raises |-> "none", chunks |-> array_split(df, chunk_amount(df, size))]

----------------------------------------------------------------------------
(* DataProcessor._get_reference_examples *)

SENTINEL == "No reference data available"

\* ProcessingConfig.similarity_search_k
similarity_search_k == 3

\* metadata.get(key, default) of the f-string: the stored text, or the default
Example(metadata) ==
    "Example Input: Raw Antibiotic: '" \o metadata.raw_antibiotic_name \o "' | "
    \o "Raw Dose: '" \o metadata.raw_dose_quantity \o "' | "
    \o "Instructions: '" \o metadata.patient_instructions \o "'\n"
    \o "Extracted Output: "
    \o "Daily Frequency: " \o metadata.clean_frequency \o ", "
    \o "Dose: " \o metadata.clean_dose \o "mg, "
    \o "Duration: " \o metadata.clean_duration \o " days\n"

\* "\n".join(examples)
RECURSIVE JoinExamples(_)
JoinExamples(docs) ==
    IF docs = <<>> THEN ""
    ELSE IF Len(docs) = 1 THEN Example(Head(docs))
    ELSE Example(Head(docs)) \o "\n" \o JoinExamples(Tail(docs))

\* vectorstore.similarity_search(chunk_text, k): raises when the embedding backend
\* or the store cannot be reached, else the (at most k) nearest records of the index
similarity_search(store, k, reachable) ==
    IF ~reachable THEN [raises |-> TRUE, docs |-> <<>>]
    ELSE [raises |-> FALSE,
          docs |-> SubSeq(store, 1, IF Len(store) < k THEN Len(store) ELSE k)]

\* try: docs = ...; return "\n".join(examples)   except Exception: return sentinel
get_reference_examples(store, reachable) ==
    LET search == similarity_search(store, similarity_search_k, reachable)
    IN IF search.raises THEN SENTINEL ELSE JoinExamples(search.docs)

----------------------------------------------------------------------------
(* build_vector_db: the record of one reference row *)

\* What a label cell of the reference sheet can hold: the column is not in the sheet,
\* the cell is empty (read as NaN), a number, a text that is no number, and a text
\* that float() reads as NaN.  The five text columns only pass through str() and
\* cannot make the construction raise; they are left out of the rows.
Absent == "<absent>"
NaNCell == "<NaN>"
CellValues == {Absent, NaNCell, "5", "abc", "NAN"}
LabelColumns == {"clean_dose", "clean_frequency", "clean_duration"}
RefRows == [LabelColumns -> CellValues]
NoRow == [col \in LabelColumns |-> Absent]

\* row.get(col, default)
Get(r, col, default) == IF r[col] = Absent THEN default ELSE r[col]

\* pd.isna(value)
isna(value) == value = NaNCell

\* a builder that leaves NaN cells as they are
KeepNaN(value) == value

\* if pd.isna(clean_x): clean_x = 0
CoerceNaN(value) == IF isna(value) THEN "0" ELSE value

\* float(value) where it succeeds; it raises ValueError on every other value
FloatText ==
    ("0" :> "0.0") @@ ("5" :> "5.0") @@ ("NAN" :> "nan") @@ (NaNCell :> "nan")

FloatRaises(value) == value \notin DOMAIN FloatText

\* the value handed to float() for one label: row.get(col, 0), NaN replaced by 0
LabelValue(r, col) == CoerceNaN(Get(r, col, "0"))

\* the try body of the loop (lines 41-78): it raises, or yields the metadata
ConstructRecord(id, r) ==
    IF \E col \in LabelColumns : FloatRaises(LabelValue(r, col))
    THEN [raises |-> TRUE,
          metadata |-> [row_id |-> id, clean_dose |-> "", clean_frequency |-> "",
                        clean_duration |-> ""]]
    ELSE [raises |-> FALSE,
          metadata |-> [row_id |-> id,
                        clean_dose |-> FloatText[LabelValue(r, "clean_dose")],
                        clean_frequency |-> FloatText[LabelValue(r, "clean_frequency")],
                        clean_duration |-> FloatText[LabelValue(r, "clean_duration")]]]

\* the persisted index at persist_directory: no directory, or a store of records
NoIndex == [exists |-> FALSE, docs |-> <<>>]
OldIndex ==
    [exists |-> TRUE,
     docs |-> << [row_id |-> 0, clean_dose |-> "250.0", clean_frequency |-> "3.0",
                  clean_duration |-> "10.0"] >>]

----------------------------------------------------------------------------
(* Inputs of a pipeline run *)

\* chunk sizes a ProcessingConfig may carry (the code validates none of them)
ChunkSizes == (-1)..MaxChunk

\* the two persisted indexes a run is opened on: an empty store, and a built one
IndexDocs ==
    << [raw_antibiotic_name |-> "amoxicillin", raw_dose_quantity |-> "500mg",
        patient_instructions |-> "twice daily for 7 days",
        clean_frequency |-> "2.0", clean_dose |-> "500.0", clean_duration |-> "7.0"],
       [raw_antibiotic_name |-> "doxycycline", raw_dose_quantity |-> "100mg",
        patient_instructions |-> "once daily",
        clean_frequency |-> "1.0", clean_dose |-> "100.0", clean_duration |-> "0.0"] >>
Stores == {<<>>, IndexDocs}

\* model responses: "2,5,7"   "2,5,7\n1,2,3,4\nbad\n1, 2,3"   ""
SampleContents ==
    { <<"2", Comma, "5", Comma, "7">>,
      <<"2", Comma, "5", Comma, "7", NL,
        "1", Comma, "2", Comma, "3", Comma, "4", NL,
        "b", "a", "d", NL,
        "1", Comma, " ", "2", Comma, "3">>,
      <<>> }

\* the state of build_vector_db while a pipeline run (or the parser) is modelled
BuildIdle ==
    /\ bpc = "Idle"
    /\ ref_rows = 0
    /\ idx = 0
    /\ row = NoRow
    /\ documents = <<>>
    /\ valid_rows = 0
    /\ skipped = {}
    /\ disk = NoIndex
    /\ build_error = "none"
    /\ removed = FALSE

\* the state of the application window after PharmApp.__init__
GuiIdle ==
    /\ processing = FALSE
    /\ process_btn = "normal"
    /\ threads = <<>>
    /\ after_queue = <<>>
    /\ dialog = "none"
    /\ ended = <<>>

----------------------------------------------------------------------------
(* DataProcessor.process_data, statement by statement *)

Init ==
    /\ pc = "Idle"
    /\ error = "none"
    /\ chunk_size \in ChunkSizes
    /\ has_callback \in BOOLEAN
    /\ index \in Stores
    /\ initialized = FALSE
    /\ raw_data_df = <<>>
    /\ chunks = <<>>
    /\ i = 0
    /\ reference = ""
    /\ results = <<>>
    /\ failed = {}
    /\ calls = <<>>
    /\ callbacks = <<>>
    /\ table = <<>>
    /\ table_columns = <<>>
    /\ BuildIdle
    /\ GuiIdle

\* `if progress_callback: progress_callback(...)`: nothing without a callback; with
\* one, the callback is invoked and either returns or raises (no try around it)
Progress(entry, next) ==
    \/ /\ ~has_callback
       /\ pc' = next
       /\ UNCHANGED <<callbacks, error>>
    \/ /\ has_callback
       /\ callbacks' = Append(callbacks, entry)
       /\ \/ pc' = next /\ error' = error
          \/ pc' = "Failed" /\ error' = "CallbackError"

Status(message) == [message |-> message, of |-> <<>>, progress |-> <<>>]

\* progress_callback("Initializing RAG system...")
ProgressInit ==
    /\ pc = "Idle"
    /\ Progress(Status("Initializing RAG system..."), "Initializing")
    /\ UNCHANGED <<chunk_size, has_callback, index, initialized, raw_data_df, chunks, i,
                   reference, results, failed, calls, table, table_columns, buildVars, guiVars>>

\* initialize_rag_system with its exception swallowed: the run goes on to the load
InitializeRagSystemSwallow ==
    /\ pc = "Initializing"
    /\ \/ /\ initialized' = TRUE
          /\ error' = error
       \/ /\ initialized' = initialized
          /\ error' = "InitError"
    /\ pc' = "Initialized"
    /\ UNCHANGED <<chunk_size, has_callback, index, raw_data_df, chunks, i, reference,
                   results, failed, calls, callbacks, table, table_columns, buildVars, guiVars>>

\* self.initialize_rag_system(): opens the store and the model handle, or raises
InitializeRagSystem ==
    /\ pc = "Initializing"
    /\ \/ /\ initialized' = TRUE
          /\ pc' = "Initialized"
          /\ error' = error
       \/ /\ initialized' = initialized
          /\ pc' = "Failed"
          /\ error' = "InitError"
    /\ UNCHANGED <<chunk_size, has_callback, index, raw_data_df, chunks, i, reference,
                   results, failed, calls, callbacks, table, table_columns, buildVars, guiVars>>

\* progress_callback("Loading data...")
ProgressLoad ==
    /\ pc = "Initialized"
    /\ Progress(Status("Loading data..."), "Loading")
    /\ UNCHANGED <<chunk_size, has_callback, index, initialized, raw_data_df, chunks, i,
                   reference, results, failed, calls, table, table_columns, buildVars, guiVars>>

\* raw_data_df = self.load_data(file_path): the rows of the file, or raises
LoadData ==
    /\ pc = "Loading"
    /\ \/ \E n \in 0..MaxRows :
            /\ raw_data_df' = [r \in 1..n |-> r]
            /\ pc' = "Batching"
            /\ error' = error
       \/ /\ raw_data_df' = raw_data_df
          /\ pc' = "Failed"
          /\ error' = "LoadError"
    /\ UNCHANGED <<chunk_size, has_callback, index, initialized, chunks, i, reference,
                   results, failed, calls, callbacks, table, table_columns, buildVars, guiVars>>

\* chunks = self.split_data_into_chunks(raw_data_df); results = []
SplitData ==
    /\ pc = "Batching"
    /\ LET out == split_data_into_chunks(raw_data_df, chunk_size)
       IN IF out.raises = "none"
          THEN /\ chunks' = out.chunks
               /\ pc' = "Loop"
               /\ error' = error
          ELSE /\ chunks' = chunks
               /\ pc' = "Failed"
               /\ error' = out.raises
    /\ i' = 0
    /\ results' = <<>>
    /\ UNCHANGED <<chunk_size, has_callback, index, initialized, raw_data_df, reference,
                   failed, calls, callbacks, table, table_columns, buildVars, guiVars>>

\* the per-batch callback with the fraction (i + 1) / len(chunks)
ProgressChunkOneBased ==
    /\ pc = "Loop"
    /\ i < Len(chunks)
    /\ Progress([message |-> "Processing chunk", of |-> <<i + 1, Len(chunks)>>,
                 progress |-> <<i + 1, Len(chunks)>>], "Retrieving")
    /\ UNCHANGED <<chunk_size, has_callback, index, initialized, raw_data_df, chunks, i,
                   reference, results, failed, calls, table, table_columns, buildVars, guiVars>>

\* for i, chunk in enumerate(chunks): progress = i / len(chunks);
\* progress_callback(f"Processing chunk {i + 1} of {len(chunks)}...", progress)
ProgressChunk ==
    /\ pc = "Loop"
    /\ i < Len(chunks)
    /\ Progress([message |-> "Processing chunk", of |-> <<i + 1, Len(chunks)>>,
                 progress |-> <<i, Len(chunks)>>], "Retrieving")
    /\ UNCHANGED <<chunk_size, has_callback, index, initialized, raw_data_df, chunks, i,
                   reference, results, failed, calls, table, table_columns, buildVars, guiVars>>

\* _process_chunk: reference_examples = self._get_reference_examples(chunk_text)
GetReferenceExamples ==
    /\ pc = "Retrieving"
    /\ \E reachable \in BOOLEAN :
          /\ reference' = get_reference_examples(index, reachable)
          /\ calls' = Append(calls, [op |-> "retrieve", chunk |-> i,
                                     reference |-> reference', raised |-> ~reachable])
    /\ pc' = "Invoking"
    /\ UNCHANGED <<error, chunk_size, has_callback, index, initialized, raw_data_df,
                   chunks, i, results, failed, callbacks, table, table_columns, buildVars, guiVars>>

\* a loop without the try/except: a batch that raises ends the run
ChainInvokeAbort ==
    /\ pc = "Invoking"
    /\ \/ \E content \in SampleContents :
            /\ calls' = Append(calls, [op |-> "invoke", chunk |-> i,
                                       reference |-> reference, raised |-> FALSE])
            /\ results' = Append(results, [content |-> content, chunk |-> i])
            /\ UNCHANGED <<failed, error>>
            /\ i' = i + 1
            /\ pc' = "Loop"
       \/ /\ calls' = Append(calls, [op |-> "invoke", chunk |-> i,
                                     reference |-> reference, raised |-> TRUE])
          /\ failed' = failed \cup {i}
          /\ error' = "BatchError"
          /\ UNCHANGED <<results, i>>
          /\ pc' = "Failed"
    /\ UNCHANGED <<chunk_size, has_callback, index, initialized, raw_data_df,
                   chunks, reference, callbacks, table, table_columns, buildVars, guiVars>>

\* a loop that calls the model a second time when the first call raised
ChainInvokeRetry ==
    /\ pc = "Invoking"
    /\ \/ \E content \in SampleContents :
            /\ calls' = Append(calls, [op |-> "invoke", chunk |-> i,
                                       reference |-> reference, raised |-> FALSE])
            /\ results' = Append(results, [content |-> content, chunk |-> i])
            /\ failed' = failed
       \/ /\ calls' = calls \o << [op |-> "invoke", chunk |-> i,
                                   reference |-> reference, raised |-> TRUE],
                                  [op |-> "invoke", chunk |-> i,
                                   reference |-> reference, raised |-> TRUE] >>
          /\ results' = results
          /\ failed' = failed \cup {i}
    /\ i' = i + 1
    /\ pc' = "Loop"
    /\ UNCHANGED <<error, chunk_size, has_callback, index, initialized, raw_data_df,
                   chunks, reference, callbacks, table, table_columns, buildVars, guiVars>>

\* _process_chunk: result = chain.invoke({... "reference": reference_examples ...});
\* process_data: results.append(result), or `except Exception: continue`
ChainInvoke ==
    /\ pc = "Invoking"
    /\ \/ \E content \in SampleContents :
            /\ calls' = Append(calls, [op |-> "invoke", chunk |-> i,
                                       reference |-> reference, raised |-> FALSE])
            /\ results' = Append(results, [content |-> content, chunk |-> i])
            /\ failed' = failed
       \/ /\ calls' = Append(calls, [op |-> "invoke", chunk |-> i,
                                     reference |-> reference, raised |-> TRUE])
          /\ results' = results
          /\ failed' = failed \cup {i}
    /\ i' = i + 1
    /\ pc' = "Loop"
    /\ UNCHANGED <<error, chunk_size, has_callback, index, initialized, raw_data_df,
                   chunks, reference, callbacks, table, table_columns, buildVars, guiVars>>

\* the finalization callback carrying a fraction (1.0)
ProgressFinalFraction ==
    /\ pc = "Loop"
    /\ i = Len(chunks)
    /\ Progress([message |-> "Finalizing results...", of |-> <<>>,
                 progress |-> <<Len(chunks), Len(chunks)>>], "Finalizing")
    /\ UNCHANGED <<chunk_size, has_callback, index, initialized, raw_data_df, chunks, i,
                   reference, results, failed, calls, table, table_columns, buildVars, guiVars>>

\* after the loop: progress_callback("Finalizing results...")
ProgressFinal ==
    /\ pc = "Loop"
    /\ i = Len(chunks)
    /\ Progress(Status("Finalizing results..."), "Finalizing")
    /\ UNCHANGED <<chunk_size, has_callback, index, initialized, raw_data_df, chunks, i,
                   reference, results, failed, calls, table, table_columns, buildVars, guiVars>>

\* return self._parse_results(results)
ParseResults ==
    /\ pc = "Finalizing"
    /\ table' = parse_results(results)
    /\ table_columns' = Columns
    /\ pc' = "Complete"
    /\ UNCHANGED <<error, chunk_size, has_callback, index, initialized, raw_data_df,
                   chunks, i, reference, results, failed, calls, callbacks, buildVars, guiVars>>

Next ==
    \/ ProgressInit
    \/ InitializeRagSystem
    \/ ProgressLoad
    \/ LoadData
    \/ SplitData
    \/ ProgressChunk
    \/ GetReferenceExamples
    \/ ChainInvoke
    \/ ProgressFinal
    \/ ParseResults

Spec == Init /\ [][Next]_vars

----------------------------------------------------------------------------
(* split_data_into_chunks called on its own: every dataset size and chunk size *)

PipelineFresh ==
    /\ error = "none"
    /\ has_callback = FALSE
    /\ index = <<>>
    /\ initialized = FALSE
    /\ i = 0
    /\ reference = ""
    /\ failed = {}
    /\ calls = <<>>
    /\ callbacks = <<>>
    /\ table = <<>>
    /\ table_columns = <<>>

InitSplit ==
    /\ pc = "SplitCall"
    /\ chunk_size \in (-1)..MaxSplitChunk
    /\ raw_data_df \in {[r \in 1..n |-> r] : n \in 0..MaxSplitRows}
    /\ chunks = <<>>
    /\ results = <<>>
    /\ PipelineFresh
    /\ BuildIdle
    /\ GuiIdle

\* processor.split_data_into_chunks(df)
CallSplit ==
    /\ pc = "SplitCall"
    /\ LET out == split_data_into_chunks(raw_data_df, chunk_size)
       IN /\ chunks' = out.chunks
          /\ error' = out.raises
    /\ pc' = "SplitReturned"
    /\ UNCHANGED <<chunk_size, has_callback, index, initialized, raw_data_df, i,
                   reference, results, failed, calls, callbacks, table, table_columns, buildVars, guiVars>>

NextSplit == CallSplit

SpecSplit == InitSplit /\ [][NextSplit]_vars

----------------------------------------------------------------------------
(* _parse_results called on its own: every short list of responses *)

RECURSIVE SumTo(_, _)
SumTo(lens, n) == IF n = 0 THEN 0 ELSE lens[n] + SumTo(lens, n - 1)

\* every list of at most MaxResponses responses over Alphabet whose lengths sum to at
\* most MaxTotalLen: the lengths first, then the characters, cut at the lengths
InitParse ==
    /\ pc = "ParseCall"
    /\ chunk_size = 1
    /\ raw_data_df = <<>>
    /\ chunks = <<>>
    /\ \E m \in 0..MaxResponses :
         \E lens \in [1..m -> 0..MaxTotalLen] :
            /\ SumTo(lens, m) <= MaxTotalLen
            /\ \E text \in [1..SumTo(lens, m) -> Alphabet] :
                  results = [r \in 1..m |->
                               [content |-> SubSeq(text, SumTo(lens, r - 1) + 1,
                                                   SumTo(lens, r)),
                                chunk |-> r - 1]]
    /\ PipelineFresh
    /\ BuildIdle
    /\ GuiIdle

\* processor._parse_results(results)
CallParse ==
    /\ pc = "ParseCall"
    /\ table' = parse_results(results)
    /\ table_columns' = Columns
    /\ pc' = "ParseReturned"
    /\ UNCHANGED <<error, chunk_size, has_callback, index, initialized, raw_data_df,
                   chunks, i, reference, results, failed, calls, callbacks, buildVars, guiVars>>

NextParse == CallParse

SpecParse == InitParse /\ [][NextParse]_vars

----------------------------------------------------------------------------
(* Properties of split_data_into_chunks (SpecSplit) *)

\* split_data_into_chunks has returned for a dataset of N >= 1 rows and chunk_size >= 1
SplitCase == pc = "SplitReturned" /\ Len(raw_data_df) >= 1 /\ chunk_size >= 1

\* ceil(n / c) for c >= 1, as the least number of batches of c rows that cover n rows
LeastCover(n, c) ==
    CHOOSE k \in 0..n : k * c >= n /\ \A m \in 0..(k - 1) : m * c < n

BatchSizes == [j \in 1..Len(chunks) |-> Len(chunks[j])]

RECURSIVE Concat(_)
Concat(seqs) == IF seqs = <<>> THEN <<>> ELSE Head(seqs) \o Concat(Tail(seqs))

\* C1 as stated: for N >= 1 rows and chunk_size C >= 1 the split returns exactly
\* ceil(N/C) batches and every batch except possibly the last has exactly C rows.
C1_Original ==
    SplitCase =>
        /\ error = "none"
        /\ Len(chunks) = LeastCover(Len(raw_data_df), chunk_size)
        /\ \A j \in 1..(Len(chunks) - 1) : Len(chunks[j]) = chunk_size

\* C1 as amended: for N >= 1 rows and chunk_size C >= 1 the split returns exactly
\* k = ceil(N/C) batches of balanced size: the first N mod k batches have
\* floor(N/k) + 1 rows, the others floor(N/k) rows, and no batch has more than C rows.
C1_Amended ==
    SplitCase =>
        LET n == Len(raw_data_df)
            k == LeastCover(n, chunk_size)
        IN /\ error = "none"
           /\ Len(chunks) = k
           /\ \A j \in 1..k :
                 /\ Len(chunks[j]) = (n \div k) + (IF j <= n % k THEN 1 ELSE 0)
                 /\ Len(chunks[j]) <= chunk_size

\* 25 rows with chunk_size 10 are split into batches of 9, 8 and 8 rows
C1_Witness ==
    /\ SplitCase
    /\ Len(raw_data_df) = 25
    /\ chunk_size = 10
    /\ BatchSizes = <<9, 8, 8>>

\* C2: for N >= 1 rows and chunk_size C >= 1 the batches are contiguous,
\* order-preserving slices of at most C rows each that partition the input: no row
\* is in two batches, none is missing, and their concatenation is the input.
C2_Partition ==
    SplitCase =>
        /\ error = "none"
        /\ \A j \in 1..Len(chunks) :
              /\ Len(chunks[j]) <= chunk_size
              /\ \E a \in 0..Len(raw_data_df) :
                    chunks[j] = SubSeq(raw_data_df, a + 1, a + Len(chunks[j]))
        /\ \A r \in 1..Len(raw_data_df) :
              Cardinality({j \in 1..Len(chunks) :
                             \E k \in 1..Len(chunks[j]) : chunks[j][k] = raw_data_df[r]}) = 1
        /\ Concat(chunks) = raw_data_df

\* 7 rows with chunk_size 3 are split into rows 1-3, 4-5 and 6-7
C2_Witness ==
    /\ SplitCase
    /\ chunk_size = 3
    /\ chunks = << <<1, 2, 3>>, <<4, 5>>, <<6, 7>> >>

----------------------------------------------------------------------------
(* Properties of _parse_results (SpecParse) *)

\* the positions of sep in s, with the two ends of s
Cuts(s, sep) == {k \in 1..Len(s) : s[k] = sep} \cup {0, Len(s) + 1}

\* the n-th smallest element of a set of numbers
Nth(S, n) == CHOOSE p \in S : Cardinality({q \in S : q < p}) = n - 1

\* the n-th piece of s between two neighbouring cuts
Piece(s, sep, n) ==
    SubSeq(s, Nth(Cuts(s, sep), n) + 1, Nth(Cuts(s, sep), n + 1) - 1)

PieceCount(s, sep) == Cardinality(Cuts(s, sep)) - 1

\* s without its leading and trailing whitespace
Trimmed(s) ==
    LET keep == {k \in 1..Len(s) : s[k] \notin Whitespace}
    IN IF keep = {} THEN <<>>
       ELSE SubSeq(s, CHOOSE a \in keep : \A b \in keep : a <= b,
                      CHOOSE a \in keep : \A b \in keep : a >= b)

\* the row a line stands for, if it has exactly 3 comma-separated fields
RowsOfLine(line) ==
    IF PieceCount(line, Comma) = 3
    THEN << [f \in 1..3 |-> Trimmed(Piece(line, Comma, f))] >>
    ELSE <<>>

RECURSIVE RowsOfLines(_, _)
RowsOfLines(content, n) ==
    IF n > PieceCount(content, NL) THEN <<>>
    ELSE RowsOfLine(Piece(content, NL, n)) \o RowsOfLines(content, n + 1)

\* one row per 3-field line, in response order and line order
RECURSIVE ExpectedRows(_)
ExpectedRows(res) ==
    IF res = <<>> THEN <<>>
    ELSE RowsOfLines(Head(res).content, 1) \o ExpectedRows(Tail(res))

\* C3: _parse_results returns, in response order and line order, exactly one row per
\* line with exactly 3 comma-separated fields, each field trimmed and kept as text;
\* every other line (empty response, 2 fields, 4 fields) is dropped and nothing raises.
C3_ParseExactlyThree ==
    pc = "ParseReturned" =>
        /\ table = ExpectedRows(results)
        /\ \A r \in 1..Len(table) : Len(table[r]) = 3

\* two responses, the first with a 3-field line, the second with a 3-field line and
\* a dropped one: two rows, in response order
C3_Witness ==
    /\ pc = "ParseReturned"
    /\ Len(results) = 2
    /\ results[1].content = <<"1", Comma, Comma>>
    /\ \E k \in 1..Len(results[2].content) : results[2].content[k] = NL
    /\ table = << <<<<"1">>, <<>>, <<>>>>, <<<<>>, <<>>, <<>>>> >>

----------------------------------------------------------------------------
(* Properties of a pipeline run (Spec) *)

\* the rows of batch j (0-based): none if the batch raised, else the 3-field lines
\* of its response
RowsOfBatch(j) ==
    IF j \in failed THEN <<>>
    ELSE LET r == CHOOSE r \in 1..Len(results) : results[r].chunk = j
         IN RowsOfLines(results[r].content, 1)

\* C4: whichever batches raise, process_data returns normally; the table is the
\* concatenation, in batch order, of the rows of the batches that did not raise, and
\* a batch that raises is followed by the next iteration of the loop.
C4_FailedBatchesSkipped ==
    /\ [](pc = "Complete" =>
            /\ error = "none"
            /\ i = Len(chunks)
            /\ table = Concat([j \in 1..Len(chunks) |-> RowsOfBatch(j - 1)]))
    /\ [][pc = "Invoking" => pc' = "Loop" /\ i' = i + 1 /\ error' = "none"]_vars

\* batch 2 of 3 raised and the run completed with the rows of batches 1 and 3
C4_Witness ==
    /\ pc = "Complete"
    /\ Len(chunks) = 3
    /\ failed = {1}
    /\ Len(RowsOfBatch(0)) = 1
    /\ Len(RowsOfBatch(2)) = 2
    /\ Len(table) = 3

\* C5 as stated: whenever the index is empty or the search fails, the retrieval
\* returns the sentinel and the model call of that batch is made with the sentinel.
C5_Claim ==
    \A k \in 1..Len(calls) :
        (calls[k].op = "retrieve" /\ (index = <<>> \/ calls[k].raised)) =>
            /\ calls[k].reference = SENTINEL
            /\ k < Len(calls) =>
                  /\ calls[k + 1].op = "invoke"
                  /\ calls[k + 1].chunk = calls[k].chunk
                  /\ calls[k + 1].reference = SENTINEL

RECURSIVE SumOver(_, _)
SumOver(f, n) == IF n = 0 THEN 0 ELSE f[n] + SumOver(f, n - 1)

\* C7 as stated: a completed run on N rows returns at most N rows.
C7_Original == pc = "Complete" => Len(table) <= Len(raw_data_df)

\* C7 as amended: a completed run returns exactly one row per 3-field line of the
\* responses of the batches that did not raise, hence at most as many rows as those
\* responses have lines; that is at most N when no response has more lines than its
\* batch has rows.
C7_Amended ==
    pc = "Complete" =>
        LET kept == [r \in 1..Len(results) |-> Len(RowsOfLines(results[r].content, 1))]
            lines == [r \in 1..Len(results) |-> PieceCount(results[r].content, NL)]
        IN /\ Len(table) = SumOver(kept, Len(results))
           /\ Len(table) <= SumOver(lines, Len(results))
           /\ (\A r \in 1..Len(results) :
                  lines[r] <= Len(chunks[results[r].chunk + 1]))
              => Len(table) <= Len(raw_data_df)

\* a completed run on one input row that returned two rows
C7_Witness ==
    /\ pc = "Complete"
    /\ Len(raw_data_df) = 1
    /\ Len(table) = 2

\* C9 as stated: with chunk_size <= 0 the run is rejected before the index and the
\* model are initialized, before the input is loaded and before any batch.
C9_Claim ==
    chunk_size <= 0 =>
        /\ ~initialized
        /\ pc \notin {"Batching", "Loop", "Retrieving", "Invoking", "Finalizing", "Complete"}
        /\ calls = <<>>

\* C10 as stated: no run ends with some but not all of its batches attempted.
C10_Claim ==
    pc \in {"Complete", "Failed"} => (i = 0 \/ i = Len(chunks))

----------------------------------------------------------------------------
(* build_vector_db, statement by statement *)

InitBuild ==
    /\ pc = "Idle"
    /\ chunk_size = 10
    /\ raw_data_df = <<>>
    /\ chunks = <<>>
    /\ results = <<>>
    /\ PipelineFresh
    /\ bpc = "Idle"
    /\ ref_rows = 0
    /\ idx = 0
    /\ row = NoRow
    /\ documents = <<>>
    /\ valid_rows = 0
    /\ skipped = {}
    /\ disk \in {NoIndex, OldIndex}
    /\ build_error = "none"
    /\ removed = FALSE
    /\ GuiIdle

\* ref_df = pd.read_excel(reference_excel_path); documents = []; valid_rows = 0
LoadReference ==
    /\ bpc = "Idle"
    /\ \/ \E n \in 0..MaxRefRows :
            /\ ref_rows' = n
            /\ bpc' = "Rows"
            /\ build_error' = build_error
       \/ /\ ref_rows' = ref_rows
          /\ bpc' = "Failed"
          /\ build_error' = "LoadError"
    /\ UNCHANGED <<idx, row, documents, valid_rows, skipped, disk, removed, pipeVars, guiVars>>

\* for idx, row in ref_df.iterrows(): the next row of the sheet
ReadRow ==
    /\ bpc = "Rows"
    /\ idx < ref_rows
    /\ row' \in RefRows
    /\ bpc' = "Construct"
    /\ UNCHANGED <<ref_rows, idx, documents, valid_rows, skipped, disk, build_error,
                   removed, pipeVars, guiVars>>

\* a loop without the try/except: a row that raises ends the build
BuildDocumentAbort ==
    /\ bpc = "Construct"
    /\ LET out == ConstructRecord(idx, row)
       IN IF out.raises
          THEN /\ skipped' = skipped \cup {idx}
               /\ bpc' = "Failed"
               /\ build_error' = "ValueError"
               /\ UNCHANGED <<documents, valid_rows>>
          ELSE /\ documents' = Append(documents, out.metadata)
               /\ valid_rows' = valid_rows + 1
               /\ bpc' = "Rows"
               /\ UNCHANGED <<skipped, build_error>>
    /\ idx' = idx + 1
    /\ UNCHANGED <<ref_rows, row, disk, removed, pipeVars, guiVars>>

\* the loop body: documents.append(Document(...)); valid_rows += 1, or
\* `except Exception: continue`
BuildDocument ==
    /\ bpc = "Construct"
    /\ LET out == ConstructRecord(idx, row)
       IN IF out.raises
          THEN /\ skipped' = skipped \cup {idx}
               /\ UNCHANGED <<documents, valid_rows>>
          ELSE /\ documents' = Append(documents, out.metadata)
               /\ valid_rows' = valid_rows + 1
               /\ skipped' = skipped
    /\ idx' = idx + 1
    /\ bpc' = "Rows"
    /\ UNCHANGED <<ref_rows, row, disk, build_error, removed, pipeVars, guiVars>>

\* the rmtree moved before the check of `documents`
CheckDocumentsAfterRemove ==
    /\ bpc = "Rows"
    /\ idx = ref_rows
    /\ IF documents = <<>>
       THEN bpc' = "Failed" /\ build_error' = "NoValidDocuments" /\ disk' = NoIndex
       ELSE bpc' = "Remove" /\ build_error' = build_error /\ disk' = disk
    /\ UNCHANGED <<ref_rows, idx, row, documents, valid_rows, skipped, removed, pipeVars, guiVars>>

\* after the loop: if not documents: raise ValueError("No valid documents created...")
CheckDocuments ==
    /\ bpc = "Rows"
    /\ idx = ref_rows
    /\ IF documents = <<>>
       THEN bpc' = "Failed" /\ build_error' = "NoValidDocuments"
       ELSE bpc' = "Remove" /\ build_error' = build_error
    /\ UNCHANGED <<ref_rows, idx, row, documents, valid_rows, skipped, disk, removed, pipeVars, guiVars>>

\* the build without the rmtree: an existing directory is kept
RemoveExistingKeep ==
    /\ bpc = "Remove"
    /\ disk' = disk
    /\ bpc' = "Write"
    /\ UNCHANGED <<ref_rows, idx, row, documents, valid_rows, skipped, build_error,
                   removed, pipeVars, guiVars>>

\* if os.path.exists(persist_directory): shutil.rmtree(persist_directory);
\* print("Removed existing vector database ...")
RemoveExisting ==
    /\ bpc = "Remove"
    /\ disk' = IF disk.exists THEN NoIndex ELSE disk
    /\ removed' = disk.exists
    /\ bpc' = "Write"
    /\ UNCHANGED <<ref_rows, idx, row, documents, valid_rows, skipped, build_error,
                   pipeVars, guiVars>>

\* vectorstore = Chroma.from_documents(documents, embeddings, persist_directory):
\* the store at persist_directory is opened (created if absent) and the documents are
\* added to what it holds, or the embedding pass raises and nothing is added
FromDocuments ==
    /\ bpc = "Write"
    /\ \/ /\ disk' = [exists |-> TRUE, docs |-> disk.docs \o documents]
          /\ bpc' = "Done"
          /\ build_error' = build_error
       \/ /\ disk' = [exists |-> TRUE, docs |-> disk.docs]
          /\ bpc' = "Failed"
          /\ build_error' = "EmbeddingError"
    /\ UNCHANGED <<ref_rows, idx, row, documents, valid_rows, skipped, removed, pipeVars, guiVars>>

NextBuild ==
    \/ LoadReference
    \/ ReadRow
    \/ BuildDocument
    \/ CheckDocuments
    \/ RemoveExisting
    \/ FromDocuments

SpecBuild == InitBuild /\ [][NextBuild]_vars

----------------------------------------------------------------------------
(* Properties of build_vector_db (SpecBuild) *)

\* the loop has just handled `row`, whose row id is idx - 1
RowHandled == bpc = "Rows" /\ idx > 0

\* a label cell holding a text that is no number
NonNumeric(value) == value = "abc"

\* a label cell holding a text that float() reads as NaN
NaNText(value) == value = "NAN"

LastDocument == documents[Len(documents)]

RowIds == [k \in 1..Len(documents) |-> documents[k].row_id]

\* C6: a row whose record construction raises is skipped and the loop goes on; a
\* build that succeeds persists exactly the records of the rows that did not raise,
\* in input order; the no-valid-documents error is raised iff no row gave a record.
C6_SkipAndContinue ==
    /\ RowHandled =>
          IF \E col \in LabelColumns : NonNumeric(row[col])
          THEN /\ idx - 1 \in skipped
               /\ \A k \in 1..Len(documents) : documents[k].row_id # idx - 1
          ELSE /\ idx - 1 \notin skipped
               /\ documents # <<>>
               /\ LastDocument.row_id = idx - 1
    /\ Len(documents) = idx - Cardinality(skipped)
    /\ \A k \in 1..Len(documents) :
          /\ RowIds[k] \in (0..(idx - 1)) \ skipped
          /\ k > 1 => RowIds[k - 1] < RowIds[k]
    /\ bpc = "Failed" => build_error \in {"LoadError", "NoValidDocuments", "EmbeddingError"}
    /\ build_error = "NoValidDocuments" => documents = <<>> /\ idx = ref_rows
    /\ (bpc \in {"Remove", "Write", "Done"} \/ build_error = "EmbeddingError")
          => documents # <<>> /\ idx = ref_rows
    /\ bpc = "Done" => disk = [exists |-> TRUE, docs |-> documents] /\ build_error = "none"

\* the first of two rows raised and the build succeeded with the second row alone
C6_Witness ==
    /\ bpc = "Done"
    /\ ref_rows = 2
    /\ skipped = {0}
    /\ RowIds = <<1>>
    /\ disk.docs = documents

\* C8 as stated: a row whose numeric label is missing or non-numeric still gets a
\* record, with that label set to 0, and no record carries a NaN label.
C8_Original ==
    /\ RowHandled =>
          \A col \in LabelColumns :
              (row[col] \in {Absent, NaNCell} \/ NonNumeric(row[col]) \/ NaNText(row[col])) =>
                  /\ documents # <<>>
                  /\ LastDocument.row_id = idx - 1
                  /\ LastDocument[col] = "0.0"
    /\ \A k \in 1..Len(documents) : \A col \in LabelColumns : documents[k][col] # "nan"

\* C8 as amended: a row with a label that float() rejects (non-numeric text) raises
\* and gets no record; every other row gets a record in which a missing label
\* (column absent, or empty cell) is 0, and a label is NaN exactly when its cell
\* holds a text that float() reads as NaN.
C8_Amended ==
    RowHandled =>
        IF \E col \in LabelColumns : NonNumeric(row[col])
        THEN \A k \in 1..Len(documents) : documents[k].row_id # idx - 1
        ELSE /\ documents # <<>>
             /\ LastDocument.row_id = idx - 1
             /\ \A col \in LabelColumns :
                   /\ row[col] \in {Absent, NaNCell} => LastDocument[col] = "0.0"
                   /\ LastDocument[col] = "nan" <=> NaNText(row[col])

\* a row with an absent column, an empty cell and a number gave the record (0, 0, 5)
C8_Witness ==
    /\ RowHandled
    /\ row = [clean_dose |-> Absent, clean_frequency |-> NaNCell, clean_duration |-> "5"]
    /\ LastDocument = [row_id |-> idx - 1, clean_dose |-> "0.0",
                       clean_frequency |-> "0.0", clean_duration |-> "5.0"]

----------------------------------------------------------------------------
(* Phases of a run (Spec) *)

\* the position of the run in Idle, Initializing, Loading, Batching,
\* ProcessingBatch[0], ..., ProcessingBatch[n-1], Finalizing, Complete (n = len(chunks))
PhaseIndex ==
    CASE pc = "Idle" -> 0
      [] pc = "Initializing" -> 1
      [] pc \in {"Initialized", "Loading"} -> 2
      [] pc = "Batching" -> 3
      [] pc = "Loop" -> 4 + i
      [] pc \in {"Retrieving", "Invoking"} -> 4 + i
      [] pc = "Finalizing" -> 4 + Len(chunks)
      [] pc = "Complete" -> 5 + Len(chunks)
      [] OTHER -> -1

\* a batch phase is the phase of an existing batch
BatchPhaseInRange == pc \in {"Retrieving", "Invoking"} => i < Len(chunks)

\* the run failed in initialize_rag_system or in load_data
SetupFailed == error \in {"InitError", "LoadError"}

\* C11: a run moves through Idle, Initializing, Loading, Batching, ProcessingBatch[0..n-1],
\* Finalizing, Complete in that order, one phase at a time (or leaves for Failed, which
\* like Complete it never leaves); a failure of the initialization or of the load takes
\* the run to Failed with the exception raised, no batch made or processed, no
\* retrieval and no model call
C11_PhaseOrder ==
    /\ [](/\ BatchPhaseInRange
          /\ (pc = "Failed") <=> (error # "none")
          /\ SetupFailed => /\ pc = "Failed"
                            /\ chunks = <<>> /\ i = 0 /\ results = <<>>
                            /\ calls = <<>> /\ failed = {})
    /\ [][/\ pc \in {"Failed", "Complete"} => pc' = pc
          /\ pc' # "Failed" => PhaseIndex' \in {PhaseIndex, PhaseIndex + 1}
          /\ (pc = "Initializing" /\ ~initialized') => (pc' = "Failed" /\ error' = "InitError")
          /\ (pc = "Loading" /\ pc' # "Batching") => (pc' = "Failed" /\ error' = "LoadError")
       ]_vars

\* the load failed after a successful initialization
C11_Witness ==
    /\ pc = "Failed" /\ error = "LoadError" /\ initialized
    /\ calls = <<>> /\ chunks = <<>>

----------------------------------------------------------------------------
(* The progress callback (Spec) *)

\* the k-th invocation of the callback in a run over n batches: before the
\* initialization, before the load, before batch k - 3, before the finalization
ExpectedCallback(k, n) ==
    IF k = 1 THEN [message |-> "Initializing RAG system...", of |-> <<>>, progress |-> <<>>]
    ELSE IF k = 2 THEN [message |-> "Loading data...", of |-> <<>>, progress |-> <<>>]
    ELSE IF k <= 2 + n THEN [message |-> "Processing chunk", of |-> <<k - 2, n>>,
                             progress |-> <<k - 3, n>>]
    ELSE [message |-> "Finalizing results...", of |-> <<>>, progress |-> <<>>]

\* the number of callback points the run has passed
CallbackPoints ==
    CASE pc = "Idle" -> {0}
      [] pc \in {"Initializing", "Initialized"} -> {1}
      [] pc \in {"Loading", "Batching"} -> {2}
      [] pc = "Loop" -> {2 + i}
      [] pc \in {"Retrieving", "Invoking"} -> {3 + i}
      [] pc \in {"Finalizing", "Complete"} -> {3 + Len(chunks)}
      [] pc = "Failed" /\ error = "InitError" -> {1}
      [] pc = "Failed" /\ error \in {"LoadError", "ZeroDivisionError", "ValueError"} -> {2}
      [] OTHER -> 1..(3 + Len(chunks))

\* a progress fraction num/den lies in 0.0 .. 1.0
InUnitInterval(fraction) ==
    /\ fraction[2] > 0
    /\ 0 <= fraction[1]
    /\ fraction[1] <= fraction[2]

\* C12: with a progress callback, the callback is invoked at exactly these points and
\* in this order: once before the initialization, once before the load, once before
\* each batch in batch order, once before the finalization; only the per-batch
\* invocations carry a fraction, and every fraction lies in 0.0 .. 1.0; without a
\* callback nothing is invoked
C12_CallbackPoints ==
    /\ ~has_callback => callbacks = <<>>
    /\ has_callback =>
         /\ Len(callbacks) \in CallbackPoints
         /\ \A k \in 1..Len(callbacks) :
               /\ callbacks[k] = ExpectedCallback(k, Len(chunks))
               /\ (callbacks[k].progress # <<>>) <=> (3 <= k /\ k <= 2 + Len(chunks))
               /\ callbacks[k].progress # <<>> => InUnitInterval(callbacks[k].progress)

\* a completed run over two or more batches with a callback
C12_Witness ==
    /\ has_callback /\ pc = "Complete"
    /\ Len(chunks) >= 2
    /\ Len(callbacks) = 3 + Len(chunks)
    /\ callbacks[4].progress = <<1, Len(chunks)>>

----------------------------------------------------------------------------
(* Schema of the returned table (Spec) *)

\* every batch of the run raised
EveryBatchFailed == failed = 0..(Len(chunks) - 1)

\* no line of any response is a row
EveryLineMalformed == \A r \in 1..Len(results) : parse_results(<<results[r]>>) = <<>>

\* C13: every run of process_data that completes returns a table whose columns are
\* exactly Daily Frequency, Dose, Duration in that order and whose rows hold exactly 3
\* fields each; when every batch failed or every response line was malformed the
\* table is empty with the same 3 columns
C13_Schema ==
    pc = "Complete" =>
        /\ table_columns = <<"Daily Frequency", "Dose", "Duration">>
        /\ \A r \in 1..Len(table) : Len(table[r]) = 3
        /\ (EveryBatchFailed \/ EveryLineMalformed) => table = <<>>

\* a completed run of two batches that both raised: an empty table with 3 columns
C13_Witness ==
    /\ pc = "Complete"
    /\ Len(chunks) = 2 /\ EveryBatchFailed
    /\ table = <<>> /\ Len(table_columns) = 3

----------------------------------------------------------------------------
(* Order of the retrievals and model calls (Spec) *)

\* the number of calls made when the run is at its position
CallsMade ==
    CASE pc \in {"Idle", "Initializing", "Initialized", "Loading", "Batching"} -> {0}
      [] pc \in {"Loop", "Retrieving"} -> {2 * i}
      [] pc = "Invoking" -> {2 * i + 1}
      [] pc \in {"Finalizing", "Complete"} -> {2 * Len(chunks)}
      [] OTHER -> 0..(2 * Len(chunks))

\* the positions in `calls` of the model invocations for batch j
InvocationsOf(j) == {k \in 1..Len(calls) : calls[k].op = "invoke" /\ calls[k].chunk = j}

\* batch j has returned a response or has failed
Settled(j) == j \in failed \/ \E r \in 1..Len(results) : results[r].chunk = j

\* C14: batches are processed one at a time in increasing index; for each batch the
\* retrieval comes before the model call and the model is invoked at most once (no
\* retry after a failure); a batch is started only when every earlier batch has
\* returned a response or failed; a completed run has made exactly one model
\* invocation per batch
C14_Sequential ==
    /\ Len(calls) \in CallsMade
    /\ \A k \in 1..Len(calls) :
          /\ calls[k].chunk = (k - 1) \div 2
          /\ calls[k].op = IF k % 2 = 1 THEN "retrieve" ELSE "invoke"
    /\ \A j \in 0..(Len(chunks) - 1) :
          /\ Cardinality(InvocationsOf(j)) <= 1
          /\ (InvocationsOf(j) # {}) <=> Settled(j)
          /\ ~(j \in failed /\ \E r \in 1..Len(results) : results[r].chunk = j)
    /\ pc \in {"Retrieving", "Invoking"} => \A j \in 0..(i - 1) : Settled(j)
    /\ pc = "Complete" =>
          Cardinality({k \in 1..Len(calls) : calls[k].op = "invoke"}) = Len(chunks)

\* a completed run of three batches, the second of which failed
C14_Witness ==
    /\ pc = "Complete"
    /\ Len(chunks) = 3 /\ failed = {1}
    /\ Len(calls) = 6
    /\ calls[4].raised

----------------------------------------------------------------------------
(* The empty dataset (Spec) *)

\* C15 as stated: for a dataset of 0 rows and chunk_size >= 1 the split returns 0
\* batches without raising (and the run completes with an empty table); the split
\* is the only step that raises ZeroDivisionError or ValueError
C15_Claim ==
    (chunk_size >= 1 /\ raw_data_df = <<>>) =>
        error \notin {"ZeroDivisionError", "ValueError"}

----------------------------------------------------------------------------
(* The persisted index across a build (SpecBuild) *)

\* the records a store held before this build
EarlierRecords == {OldIndex.docs[k] : k \in 1..Len(OldIndex.docs)}

\* C16: a build that succeeds where an index is already persisted deletes the old
\* index completely before it writes the new one: nothing is persisted at the moment
\* of the write, and the resulting index holds exactly the valid records of this
\* build and no record of an earlier build
C16_FreshIndex ==
    /\ bpc = "Write" => disk = NoIndex
    /\ removed => bpc \in {"Write", "Done", "Failed"}
    /\ bpc = "Done" =>
          /\ disk.exists
          /\ disk.docs = documents
          /\ Len(disk.docs) = valid_rows
          /\ \A k \in 1..Len(disk.docs) : disk.docs[k] \notin EarlierRecords

\* a build of two valid rows has succeeded where an index was persisted
C16_Witness ==
    /\ bpc = "Done"
    /\ removed
    /\ valid_rows = 2
    /\ disk.docs = documents

\* C18: a build that aborts with the no-valid-documents error leaves the persisted
\* index unchanged: the index changes only in a step taken with at least one valid
\* record, a valid record once produced is never dropped, and the error is raised
\* only with no valid record
C18_AbortKeepsIndex ==
    /\ [](build_error = "NoValidDocuments" =>
             /\ bpc = "Failed"
             /\ documents = <<>>
             /\ ~removed
             /\ disk \in {NoIndex, OldIndex})
    /\ [][/\ disk' # disk => (documents # <<>> /\ bpc \in {"Remove", "Write"})
          /\ documents # <<>> => documents' # <<>>
       ]_vars

\* the build aborted on a sheet whose every row was skipped, with the old index in place
C18_Witness ==
    /\ build_error = "NoValidDocuments"
    /\ ref_rows = 2 /\ skipped = {0, 1}
    /\ disk = OldIndex

----------------------------------------------------------------------------
(* The progress fraction (Spec) *)

\* the fractions a / b and c / d are equal (b, d > 0)
SameFraction(a, b, c, d) == a * d = c * b

\* the callback invocation made last
LastCallback == callbacks[Len(callbacks)]

\* C17 as stated: once the i-th batch (1-based) has finished, the callback has been
\* invoked with the fraction i / total_batches
C17_Original ==
    (has_callback /\ pc = "Loop" /\ i >= 1) =>
        /\ LastCallback.progress # <<>>
        /\ SameFraction(LastCallback.progress[1], LastCallback.progress[2], i, Len(chunks))

\* C17 amended: progress is reported before each batch: the report for the batch of
\* 0-based index i carries i / total_batches and is made before the batch's retrieval
\* and model call, so the first report carries 0.0 and every report carries less
\* than 1.0; after a batch has finished nothing is reported until the next batch
C17_Amended ==
    has_callback =>
        /\ pc \in {"Retrieving", "Invoking"} =>
              /\ LastCallback.progress = <<i, Len(chunks)>>
              /\ Len(calls) \in {2 * i, 2 * i + 1}
        /\ (pc = "Loop" /\ i >= 1) => LastCallback.progress = <<i - 1, Len(chunks)>>
        /\ \A k \in 1..Len(callbacks) :
              callbacks[k].progress # <<>> =>
                 /\ callbacks[k].progress[1] < callbacks[k].progress[2]
                 /\ SameFraction(callbacks[k].progress[1], callbacks[k].progress[2],
                                 k - 3, Len(chunks))

\* all three batches of a run are done and the last report carried 2/3
C17_Witness ==
    /\ has_callback /\ pc = "Loop"
    /\ Len(chunks) = 3 /\ i = 3
    /\ LastCallback.progress = <<2, 3>>

----------------------------------------------------------------------------
(* The application window (src/pharm_app.py): the Tk main loop runs the handlers one *)
(* at a time; a worker thread runs one pipeline and schedules its outcome          *)

MaxRuns == 3
MaxPending == 2

\* the message boxes of start_processing and processing_error
MSG_PATHS == "Please select input file and output directory"
MSG_DB == "RAG database not found. Run rag_setup.py first."
MSG_ERROR == "Processing Error"

\* the values of file_panel.get_input_path() / get_output_path(): empty or a path
Paths == {"", "in.xlsx"}

\* ProcessingControls.set_processing_state(processing)
set_processing_state(flag) == IF flag THEN "disabled" ELSE "normal"

\* the worker threads that have not reached the end of process_data_thread
Running == {t \in 1..Len(threads) : threads[t] = "Running"}

InitGui ==
    /\ pc = "Idle"
    /\ chunk_size = 10
    /\ raw_data_df = <<>>
    /\ chunks = <<>>
    /\ results = <<>>
    /\ PipelineFresh
    /\ BuildIdle
    /\ GuiIdle

\* start_processing with the button left enabled
start_processing_enabled ==
    /\ process_btn = "normal"
    /\ Len(threads) < MaxRuns
    /\ \E input_path \in Paths, output_dir \in Paths, chroma_db \in BOOLEAN :
          IF input_path = "" \/ output_dir = ""
          THEN /\ dialog' = MSG_PATHS
               /\ UNCHANGED <<processing, process_btn, threads>>
          ELSE IF ~chroma_db
          THEN /\ dialog' = MSG_DB
               /\ UNCHANGED <<processing, process_btn, threads>>
          ELSE /\ processing' = TRUE
               /\ process_btn' = process_btn
               /\ threads' = Append(threads, "Running")
               /\ dialog' = dialog
    /\ UNCHANGED <<after_queue, ended, pipeVars, buildVars>>

\* a click on the Process button, which runs its command unless it is disabled:
\* start_processing validates the paths and ./chroma_db, then sets the processing
\* state and starts the worker thread
start_processing ==
    /\ process_btn = "normal"
    /\ Len(threads) < MaxRuns
    /\ \E input_path \in Paths, output_dir \in Paths, chroma_db \in BOOLEAN :
          IF input_path = "" \/ output_dir = ""
          THEN /\ dialog' = MSG_PATHS
               /\ UNCHANGED <<processing, process_btn, threads>>
          ELSE IF ~chroma_db
          THEN /\ dialog' = MSG_DB
               /\ UNCHANGED <<processing, process_btn, threads>>
          ELSE /\ processing' = TRUE
               /\ process_btn' = set_processing_state(TRUE)
               /\ threads' = Append(threads, "Running")
               /\ dialog' = dialog
    /\ UNCHANGED <<after_queue, ended, pipeVars, buildVars>>

\* the worker's progress_callback: root.after(0, update_status), and with a fraction
\* root.after(0, update_progress)
progress_callback ==
    /\ Running # {}
    /\ \E events \in {<<"update_status">>, <<"update_status", "update_progress">>} :
          /\ Len(after_queue) + Len(events) <= MaxPending
          /\ after_queue' = after_queue \o events
    /\ UNCHANGED <<processing, process_btn, threads, dialog, ended, pipeVars, buildVars>>

\* the last statement of process_data_thread: root.after(0, processing_complete) when
\* the pipeline and save_results returned, root.after(0, processing_error) when the
\* try body raised
process_data_thread ==
    \E t \in Running :
       /\ \E outcome \in {"processing_complete", "processing_error"} :
             after_queue' = Append(after_queue, outcome)
       /\ threads' = [threads EXCEPT ![t] = "Finished"]
       /\ UNCHANGED <<processing, process_btn, dialog, ended, pipeVars, buildVars>>

\* the main loop runs a scheduled status or progress update
update_status ==
    /\ after_queue # <<>>
    /\ Head(after_queue) \in {"update_status", "update_progress"}
    /\ after_queue' = Tail(after_queue)
    /\ UNCHANGED <<processing, process_btn, threads, dialog, ended, pipeVars, buildVars>>

\* the main loop runs the scheduled processing_complete
processing_complete ==
    /\ after_queue # <<>>
    /\ Head(after_queue) = "processing_complete"
    /\ after_queue' = Tail(after_queue)
    /\ processing' = FALSE
    /\ process_btn' = set_processing_state(FALSE)
    /\ ended' = Append(ended, "processing_complete")
    /\ UNCHANGED <<threads, dialog, pipeVars, buildVars>>

\* the main loop runs the scheduled processing_error: the message box, then the reset
processing_error ==
    /\ after_queue # <<>>
    /\ Head(after_queue) = "processing_error"
    /\ after_queue' = Tail(after_queue)
    /\ dialog' = MSG_ERROR
    /\ processing' = FALSE
    /\ process_btn' = set_processing_state(FALSE)
    /\ ended' = Append(ended, "processing_error")
    /\ UNCHANGED <<threads, pipeVars, buildVars>>

NextGui ==
    \/ start_processing
    \/ progress_callback
    \/ process_data_thread
    \/ update_status
    \/ processing_complete
    \/ processing_error

SpecGui == InitGui /\ [][NextGui]_vars

\* the pipeline of a worker returns or raises, and the main loop keeps running the
\* callbacks it was given
SpecGuiFair ==
    /\ SpecGui
    /\ WF_vars(process_data_thread)
    /\ WF_vars(update_status)
    /\ WF_vars(processing_complete)
    /\ WF_vars(processing_error)

----------------------------------------------------------------------------
(* Properties of the application window (SpecGuiFair) *)

\* the outcome of a run is scheduled and its handler has not run yet
OutcomePending ==
    \E k \in 1..Len(after_queue) :
       after_queue[k] \in {"processing_complete", "processing_error"}

\* C19: the Process button is disabled exactly while processing is True; at most one
\* worker thread runs at any time; processing is True exactly from the start of a
\* run to the handler of its outcome; that handler (processing_complete or
\* processing_error) resets processing and re-enables the button; a
\* start_processing rejected by the validation leaves processing False and starts
\* no thread; every run that was started ends in its handler
C19_OneRunAtATime ==
    /\ [](/\ (process_btn = "disabled") <=> processing
          /\ Cardinality(Running) <= 1
          /\ processing <=> (Running # {} \/ OutcomePending)
          /\ Len(ended) <= Len(threads))
    /\ [][/\ Len(ended') > Len(ended) =>
               (processing /\ ~processing' /\ process_btn' = "normal")
          /\ (dialog' # dialog /\ dialog' \in {MSG_PATHS, MSG_DB}) =>
               (~processing' /\ threads' = threads)
       ]_vars
    /\ \A k \in 1..MaxRuns :
          (Len(threads) >= k) ~> (Len(ended) >= k)

\* one run ended in processing_error, the next in processing_complete, and a
\* third click was rejected for the missing ./chroma_db
C19_Witness ==
    /\ ended = <<"processing_error", "processing_complete">>
    /\ Len(threads) = 2
    /\ dialog = MSG_DB
    /\ ~processing /\ process_btn = "normal"

====
